---- MODULE Spec2Model ----
(***************************************************************************)
(* JNI bridge of the tiktoken tokenizer (src/jni/src/lib.rs).              *)
(*                                                                         *)
(* Host threads call the three native methods of tiktoken.Encoding:        *)
(* init, destroy and encode.  The engine (CoreBPENative) of an object is   *)
(* kept in the Java long field "handle" as a pointer to a heap-allocated   *)
(* Mutex<CoreBPENative>, through the jni crate's set_rust_field,           *)
(* get_rust_field and take_rust_field.  These three are modelled at their  *)
(* call sites by what the jni crate does:                                  *)
(*   set_rust_field   enters the object's monitor, fails with              *)
(*                    FieldAlreadySet when the field is not null (the      *)
(*                    value passed in is dropped), else boxes the value    *)
(*                    and stores the pointer;                              *)
(*   get_rust_field   enters the monitor, fails on a null field, else      *)
(*                    locks the mutex (blocking, monitor still held) and   *)
(*                    returns the guard;                                   *)
(*   take_rust_field  enters the monitor, fails on a null field, rebuilds  *)
(*                    the Box from the pointer, try_locks the mutex and    *)
(*                    returns TryLock when that fails (the rebuilt Box is  *)
(*                    dropped by the early return), else nulls the field   *)
(*                    and returns the value.                               *)
(* A panic that leaves an extern "system" function aborts the process.     *)
(***************************************************************************)
EXTENDS Integers, Sequences, FiniteSets, TLC

\* ---------------------------------------------------------------- bounds
NumThreads == 3
NumObjects == 2
MaxEngines == 2
MaxCalls == 4
MaxSpecial == 1
MaxText == 1

Threads == 1..NumThreads
Objects == 1..NumObjects
Engines == 1..MaxEngines

\* ------------------------------------------------------- values, results
Unit == [kind |-> "unit"]
NullArray == [kind |-> "null"]
LongArray(s) == [kind |-> "array", elems |-> s]

Ok(v) == [ok |-> TRUE, val |-> v, err |-> ""]
Err(m) == [ok |-> FALSE, val |-> Unit, err |-> m]
NoResult == [ok |-> FALSE, val |-> Unit, err |-> "-"]

\* messages of the errors the closures can return (format!("{}", error))
ErrNullPtr == "Null pointer"
ErrJavaException == "Java exception was thrown"
ErrFindModel == "Unable to find model"
ErrFindEncoding == "Unable to find encoding"
ErrVocabulary == "vocabulary load failed"
ErrConstruct == "engine construction failed"
ErrFieldAlreadySet == "Field already set: handle"
ErrTryFromInt == "out of range integral type conversion attempted"

\* a JNI call's outcome: it succeeds, it fails without raising (a null
\* argument), or it fails because the JVM raised an exception, which is
\* then pending on the calling thread
JniOutcomes == {"ok", "null", "jexc"}
JavaRaised == "raised by the JVM"

\* ------------------------------------------ configuration tables (core)
NullName == "<null>"
ModelInputs == {"gpt-4", "gpt2", "no-such-model", NullName}
MODEL_TO_ENCODING == [m \in {"gpt-4", "gpt2"} |->
                        IF m = "gpt-4" THEN "cl100k_base" ELSE "gpt2"]
REGISTRY == {"cl100k_base", "gpt2"}

\* ----------------------------------------------------------------- state
VARIABLES
  field,     \* field[o]: the Java long field "handle" of object o; 0 = null
  heap,      \* heap[e]: the native allocation e: st, enc (its encoding),
             \*          obj (the object it was boxed for, 0 = none)
  holders,   \* holders[e]: threads holding a MutexGuard of box e
  monitor,   \* monitor[o]: thread inside the Java monitor of o, 0 = none
  released,  \* released[e]: how many times engine e has been dropped
  destroyed, \* destroyed[o]: a destroy call on o has completed
  pc,        \* pc[t]: position of host thread t inside its native call
  obj,       \* obj[t]: the object of t's call (`obj`)
  ptr,       \* ptr[t]: the box t's encode call works on (the guard)
  last,      \* the native call that returned last: op, the closure's result,
             \* the exceptions pending on its JNIEnv at return, the value
             \* returned
  aborted,   \* the process has aborted
  calls,     \* native calls started so far
  usedT,     \* host threads that have made a call so far
  usedO      \* host objects that have been the target of a call so far

vars == <<field, heap, holders, monitor, released, destroyed, pc, obj, ptr,
          last, aborted, calls, usedT, usedO>>

shared == <<field, heap, holders, monitor, released, destroyed>>

NoEngine == [st |-> "unalloc", enc |-> "", obj |-> 0]
NoCall == [op |-> "none", result |-> NoResult, exc |-> <<>>, ret |-> Unit]

Init ==
  /\ field = [o \in Objects |-> 0]
  /\ heap = [e \in Engines |-> NoEngine]
  /\ holders = [e \in Engines |-> {}]
  /\ monitor = [o \in Objects |-> 0]
  /\ released = [e \in Engines |-> 0]
  /\ destroyed = [o \in Objects |-> FALSE]
  /\ pc = [t \in Threads |-> "idle"]
  /\ obj = [t \in Threads |-> 0]
  /\ ptr = [t \in Threads |-> 0]
  /\ last = NoCall
  /\ aborted = FALSE
  /\ calls = 0
  /\ usedT = 0
  /\ usedO = 0

\* ------------------------------------------------------------ error bridge
\* unwrap_or_throw(env, result, default): the value returned and the
\* exceptions thrown, given whether an exception is pending on env
\* variant: no exception_check before throwing
unwrap_or_throw_unchecked(pending, res, default) ==
  IF res.ok THEN [value |-> res.val, throws |-> <<>>]
  ELSE [value |-> default, throws |-> <<res.err>>]

\* variant: the exception carries a fixed text instead of the error's
unwrap_or_throw_generic(pending, res, default) ==
  IF pending THEN [value |-> default, throws |-> <<>>]
  ELSE IF res.ok THEN [value |-> res.val, throws |-> <<>>]
  ELSE [value |-> default, throws |-> <<"native error">>]

\* variant: a successful value is returned whatever is pending
unwrap_or_throw_value_first(pending, res, default) ==
  IF res.ok THEN [value |-> res.val, throws |-> <<>>]
  ELSE IF pending THEN [value |-> default, throws |-> <<>>]
  ELSE [value |-> default, throws |-> <<res.err>>]

unwrap_or_throw(pending, res, default) ==
  IF pending THEN [value |-> default, throws |-> <<>>]
  ELSE IF res.ok THEN [value |-> res.val, throws |-> <<>>]
  ELSE [value |-> default, throws |-> <<res.err>>]

\* the default each entry point hands to unwrap_or_throw (lines 65, 113)
Default(op) == IF op = "encode" THEN NullArray ELSE Unit

\* the exceptions the JVM has raised on the calling thread when a JNI call
\* made the closure fail
Raised(r) == IF ~r.ok /\ r.err = ErrJavaException THEN <<JavaRaised>> ELSE <<>>

\* the native method `op` of thread t returns through
\* unwrap_or_throw(&env, result, default); no exception is pending when the
\* host calls a native method
Return(t, op, r, default) ==
  LET pend == Raised(r)
      u == unwrap_or_throw(pend # <<>>, r, default) IN
  /\ last' = [op |-> op, result |-> r, exc |-> pend \o u.throws,
              ret |-> u.value]
  /\ pc' = [pc EXCEPT ![t] = "idle"]
  /\ obj' = [obj EXCEPT ![t] = 0]
  /\ ptr' = [ptr EXCEPT ![t] = 0]

\* the host calls a native method from thread t on object o; threads and
\* objects are numbered in the order of their first call
HostCall(t, o) ==
  /\ ~aborted
  /\ pc[t] = "idle"
  /\ calls < MaxCalls
  /\ t <= usedT + 1
  /\ o <= usedO + 1
  /\ calls' = calls + 1
  /\ usedT' = IF t > usedT THEN t ELSE usedT
  /\ usedO' = IF o > usedO THEN o ELSE usedO
  /\ UNCHANGED aborted

\* ------------------------------------------------------------------- init
\* lines 44-58 of the closure: the model name is fetched and resolved and
\* the engine is constructed
InitResolveResult(name, jni, vocabOk, newOk) ==
  IF jni = "null" THEN Err(ErrNullPtr)
  ELSE IF jni = "jexc" THEN Err(ErrJavaException)
  ELSE IF name \notin DOMAIN MODEL_TO_ENCODING THEN Err(ErrFindModel)
  ELSE IF MODEL_TO_ENCODING[name] \notin REGISTRY THEN Err(ErrFindEncoding)
  ELSE IF ~vocabOk THEN Err(ErrVocabulary)
  ELSE IF ~newOk THEN Err(ErrConstruct)
  ELSE Ok([kind |-> "engine", enc |-> MODEL_TO_ENCODING[name]])

\* what the host can pass to init and what the JNI calls and the engine's
\* construction can answer; a null model name is what makes get_string fail
\* with NullPtr
InitInputs ==
  {y \in ModelInputs \X JniOutcomes \X BOOLEAN \X BOOLEAN :
     (y[2] = "null") <=> (y[1] = NullName)}
InitOutcomes == {InitResolveResult(y[1], y[2], y[3], y[4]) : y \in InitInputs}

\* variant: an engine that is already a handle can be handed out again
FreshEnginesShared == {e \in Engines : heap[e].st # "freed"}

FreshEngines == {e \in Engines : heap[e].st = "unalloc"}

\* env.set_rust_field(obj, "handle", bpe_native): whether it stores the
\* boxed value and what it returns, given the field's current value
\* variant: the field is overwritten without looking at its value
set_rust_field_overwrite(cur) == [store |-> TRUE, res |-> Ok(Unit)]

\* variant: the field is written before the check reports the error
set_rust_field_store_first(cur) ==
  IF cur # 0 THEN [store |-> TRUE, res |-> Err(ErrFieldAlreadySet)]
  ELSE [store |-> TRUE, res |-> Ok(Unit)]

set_rust_field(cur) ==
  IF cur # 0 THEN [store |-> FALSE, res |-> Err(ErrFieldAlreadySet)]
  ELSE [store |-> TRUE, res |-> Ok(Unit)]

\* lines 40-66: init called from thread t on object o: the closure and
\* unwrap_or_throw(&env, result, ()); the engine is constructed, then
\* set_rust_field runs inside the monitor of obj
CallInit(t, o) ==
  /\ HostCall(t, o)
  /\ \E r \in InitOutcomes :
       IF ~r.ok
       THEN /\ Return(t, "init", r, Unit)
            /\ UNCHANGED <<field, heap, released>>
       ELSE /\ FreshEngines # {}
            /\ monitor[o] = 0
            /\ LET e == CHOOSE x \in FreshEngines :
                          \A y \in FreshEngines : x <= y
                   s == set_rust_field(field[o]) IN
               /\ IF s.store
                  THEN /\ field' = [field EXCEPT ![o] = e]
                       /\ heap' = [heap EXCEPT ![e] =
                            [st |-> "boxed", enc |-> r.val.enc, obj |-> o]]
                       /\ UNCHANGED released
                  ELSE \* the engine passed by value is dropped
                       /\ heap' = [heap EXCEPT ![e] =
                            [st |-> "freed", enc |-> r.val.enc, obj |-> 0]]
                       /\ released' = [released EXCEPT ![e] = @ + 1]
                       /\ UNCHANGED field
               /\ Return(t, "init", s.res, Unit)
  /\ UNCHANGED <<holders, monitor, destroyed>>

\* ---------------------------------------------------------------- destroy
\* try_lock on box e: it fails when a guard is out; on a box that has been
\* freed the mutex word is garbage and either outcome is possible
TryLockOutcomes(e) ==
  IF heap[e].st = "freed" THEN {TRUE, FALSE} ELSE {holders[e] = {}}

\* env.take_rust_field(obj, "handle"): its outcome, whether it nulls the
\* field and whether the Box it rebuilt from the pointer is dropped, given
\* the field's current value and whether try_lock succeeded
take_rust_field(cur, lockFree) ==
  IF cur = 0 THEN [res |-> "null", clear |-> FALSE, drop |-> FALSE]
  ELSE IF lockFree THEN [res |-> "taken", clear |-> TRUE, drop |-> TRUE]
  ELSE [res |-> "try_lock_failed", clear |-> FALSE, drop |-> TRUE]

\* lines 69-73: destroy called from thread t on object o, inside the monitor
\* of obj; `let _: CoreBPENative` drops the engine taken; a failed try_lock
\* returns early and drops the rebuilt Box; an Err makes .expect panic
CallDestroy(t, o) ==
  LET e == field[o] IN
  /\ HostCall(t, o)
  /\ monitor[o] = 0
  /\ \E lockFree \in (IF e = 0 THEN {TRUE} ELSE TryLockOutcomes(e)) :
       LET out == take_rust_field(e, lockFree) IN
       /\ field' = [field EXCEPT ![o] = IF out.clear THEN 0 ELSE @]
       /\ heap' = IF out.drop THEN [heap EXCEPT ![e].st = "freed"] ELSE heap
       /\ released' = IF out.drop THEN [released EXCEPT ![e] = @ + 1]
                      ELSE released
       /\ destroyed' = [destroyed EXCEPT ![o] = @ \/ out.res = "taken"]
       /\ IF out.res = "taken"
          THEN /\ pc' = [pc EXCEPT ![t] = "idle"]
               /\ last' = [op |-> "destroy", result |-> Ok(Unit),
                           exc |-> <<>>, ret |-> Unit]
          ELSE /\ pc' = [pc EXCEPT ![t] = "d_panic"]
               /\ UNCHANGED last
  /\ UNCHANGED <<holders, monitor, obj, ptr>>

\* line 71: .expect("Unable to get handle during destruction") panics out
\* of the extern "system" function
DestroyPanic(t) ==
  /\ ~aborted
  /\ pc[t] = "d_panic"
  /\ aborted' = TRUE
  /\ UNCHANGED <<shared, pc, obj, ptr, last, calls, usedT, usedO>>

\* ----------------------------------------------------------------- encode
\* env.get_rust_field(obj, "handle"): the box to lock, given the field
\* variant: no null check on the pointer read from the field
get_rust_field_unchecked(cur) == Ok(cur)

get_rust_field(cur) == IF cur = 0 THEN Err(ErrNullPtr) ELSE Ok(cur)

\* variant: one lock for all the engines
CanLockGlobal(e) == \A x \in Engines : holders[x] = {}

\* Mutex::lock on box e can return: no guard is out, or the box has been
\* freed and the mutex word is garbage
CanLock(e) == holders[e] = {} \/ heap[e].st = "freed"

\* line 84, first half: encode called from thread t on object o: the
\* monitor of obj is entered and the field read; a null field fails the
\* closure
CallEncode(t, o) ==
  LET g == get_rust_field(field[o]) IN
  /\ HostCall(t, o)
  /\ monitor[o] = 0
  /\ IF ~g.ok
     THEN /\ Return(t, "encode", g, NullArray)
          /\ UNCHANGED monitor
     ELSE /\ monitor' = [monitor EXCEPT ![o] = t]
          /\ ptr' = [ptr EXCEPT ![t] = g.val]
          /\ obj' = [obj EXCEPT ![t] = o]
          /\ pc' = [pc EXCEPT ![t] = "e_lock"]
          /\ UNCHANGED last
  /\ UNCHANGED <<field, heap, holders, released, destroyed>>

\* line 84, second half: (*ptr).lock() returns the guard, then the monitor
\* is left
EncLock(t) ==
  LET e == ptr[t] IN
  /\ ~aborted
  /\ pc[t] = "e_lock"
  /\ CanLock(e)
  /\ holders' = [holders EXCEPT ![e] = @ \cup {t}]
  /\ monitor' = [monitor EXCEPT ![obj[t]] = 0]
  /\ pc' = [pc EXCEPT ![t] = "e_held"]
  /\ UNCHANGED <<field, heap, released, destroyed, obj, ptr, last, aborted,
                 calls, usedT, usedO>>

\* the guard `enc` is dropped when the closure returns
\* variant: the guard is released on the success path only
DropGuardOnSuccess(h, t, r) == IF r.ok THEN h \ {t} ELSE h

\* variant: the guard is forgotten, never released
DropGuardLeak(h, t, r) == h

DropGuard(h, t, r) == h \ {t}

\* host arguments of encode: a text (or null), and an array (or null) whose
\* elements are special-token strings, null, or cannot be fetched
Texts == 0..MaxText
SpecialStrings == {"<|endoftext|>"}
ElementKinds == SpecialStrings \cup {"null", "jexc"}
RECURSIVE SeqsUpTo(_, _)
SeqsUpTo(S, n) ==
  IF n = 0 THEN {<<>>}
  ELSE LET shorter == SeqsUpTo(S, n - 1) IN
       shorter \cup {Append(q, x) : q \in {r \in shorter : Len(r) = n - 1},
                                    x \in S}
SpecialArrays == SeqsUpTo(ElementKinds, MaxSpecial)

\* variant: an element that cannot be fetched is left out of the set
RECURSIVE MarshalElementsSkip(_, _, _)
MarshalElementsSkip(arr, i, strings) ==
  IF i > Len(arr) THEN Ok(strings)
  ELSE IF arr[i] \in {"jexc", "null"}
  THEN MarshalElementsSkip(arr, i + 1, strings)
  ELSE MarshalElementsSkip(arr, i + 1, Append(strings, arr[i]))

\* lines 93-98: the loop over allowed_special_tokens
RECURSIVE MarshalElements(_, _, _)
MarshalElements(arr, i, strings) ==
  IF i > Len(arr) THEN Ok(strings)
  ELSE IF arr[i] = "jexc" THEN Err(ErrJavaException)
  ELSE IF arr[i] = "null" THEN Err(ErrNullPtr)
  ELSE MarshalElements(arr, i + 1, Append(strings, arr[i]))

\* lines 87-100
MarshalResult(textJni, text, arrNull, arr) ==
  IF textJni = "null" THEN Err(ErrNullPtr)
  ELSE IF textJni = "jexc" THEN Err(ErrJavaException)
  ELSE IF arrNull THEN Err(ErrNullPtr)
  ELSE LET m == MarshalElements(arr, 1, <<>>) IN
       IF ~m.ok THEN m
       ELSE Ok([input |-> text,
                v2 |-> {m.val[i] : i \in 1..Len(m.val)}])

\* integer widths, scaled down: usize and jlong have WordBits bits
WordBits == 4
RECURSIVE Pow2(_)
Pow2(n) == IF n = 0 THEN 1 ELSE 2 * Pow2(n - 1)
\* variant: a negative value is clamped to zero
AsUsizeSaturating(k) == IF k < 0 THEN 0 ELSE k % Pow2(WordBits)
\* variant: the bound is one more than the value passed
AsUsizeOffByOne(k) == (k + 1) % Pow2(WordBits)
AsUsize(k) == k % Pow2(WordBits)
AsI64(x) == IF x % Pow2(WordBits) >= Pow2(WordBits - 1)
            THEN (x % Pow2(WordBits)) - Pow2(WordBits) ELSE x % Pow2(WordBits)
MinI64 == 0 - Pow2(WordBits - 1)
MaxTokenLengths == {MinI64, -1, 0, 1, MaxText}

\* the engine: the text's pieces in order, the first piece being the
\* special token when it is allowed, cut at the bound
TokenId(enc, i, v2) ==
  IF i = 1 /\ "<|endoftext|>" \in v2 THEN 0
  ELSE IF enc = "gpt2" THEN i ELSE i + MaxText
Min(a, b) == IF a < b THEN a ELSE b
encode_native(enc, input, v2, bound) ==
  [i \in 1..Min(input, bound) |-> TokenId(enc, i, v2)]

\* lines 104-110
OutputResult(toks, newJni, copyJni) ==
  IF Len(toks) >= Pow2(WordBits - 1) THEN Err(ErrTryFromInt)
  ELSE IF newJni # "ok" THEN Err(ErrJavaException)
  ELSE IF copyJni # "ok" THEN Err(ErrJavaException)
  ELSE Ok(LongArray([i \in 1..Len(toks) |-> AsI64(toks[i])]))

\* line 102: what the engine is invoked with, when the marshalling m of the
\* arguments got that far: Some(max_token_length as usize) is the bound
EngineCall(m, max_token_length) ==
  IF ~m.ok THEN [called |-> FALSE, input |-> 0, v2 |-> {}, bound |-> 0]
  ELSE [called |-> TRUE, input |-> m.val.input, v2 |-> m.val.v2,
        bound |-> AsUsize(max_token_length)]

\* variant: the tokens of the previous call are kept and returned again
EngineTokensCached(enc, c) ==
  IF ~c.called THEN <<>>
  ELSE IF last.op = "encode" /\ last.result.ok THEN last.tokens
  ELSE encode_native(enc, c.input, c.v2, c.bound)

\* line 102: the tokens the engine returns for the invocation c
EngineTokens(enc, c) ==
  IF c.called THEN encode_native(enc, c.input, c.v2, c.bound) ELSE <<>>

\* lines 87-110 of the closure, run on engine `enc` with the guard held
EncodeResult(enc, textJni, text, arrNull, arr, max_token_length, jni) ==
  LET newJni == jni[1]
      copyJni == jni[2]
      m == MarshalResult(textJni, text, arrNull, arr)
      c == EngineCall(m, max_token_length) IN
  IF ~c.called THEN m
  ELSE OutputResult(EngineTokens(enc, c), newJni, copyJni)

\* what the host can pass to encode and what the JNI calls can answer:
\* text fetch, text, null array, array, max_token_length, new_long_array,
\* set_long_array_region; a null text is what makes get_string fail with
\* NullPtr, and nothing after a failing call is looked at
EncodeInputs ==
  {y \in JniOutcomes \X Texts \X BOOLEAN \X SpecialArrays \X MaxTokenLengths
         \X {"ok", "jexc"} \X {"ok", "jexc"} :
     /\ y[1] # "ok" => y[2] = 0 /\ ~y[3] /\ y[4] = <<>>
     /\ y[3] => y[4] = <<>>
     /\ y[6] # "ok" => y[7] = "ok"}
EncodeOutcomes ==
  [enc \in REGISTRY |->
     {EncodeResult(enc, y[1], y[2], y[3], y[4], y[5], <<y[6], y[7]>>) :
        y \in EncodeInputs}]

\* lines 86-113, with the guard held: the arguments are marshalled, the
\* engine runs (a freed engine's tables are garbage), the array is built,
\* the closure returns, the guard drops, and
\* unwrap_or_throw(&env, result, JObject::null().into_raw()) returns
EncBody(t) ==
  LET e == ptr[t] IN
  /\ ~aborted
  /\ pc[t] = "e_held"
  /\ \E enc \in (IF heap[e].st = "freed" THEN REGISTRY ELSE {heap[e].enc}) :
       \E r \in EncodeOutcomes[enc] :
         /\ holders' = [holders EXCEPT ![e] = DropGuard(@, t, r)]
         /\ Return(t, "encode", r, NullArray)
  /\ UNCHANGED <<field, heap, monitor, released, destroyed, aborted, calls,
                 usedT, usedO>>

\* ---------------------------------------------------------- specification
Next ==
  \E t \in Threads :
    \/ \E o \in Objects : CallInit(t, o)
    \/ \E o \in Objects : CallEncode(t, o)
    \/ \E o \in Objects : CallDestroy(t, o)
    \/ DestroyPanic(t)
    \/ EncLock(t)
    \/ EncBody(t)

Spec == Init /\ [][Next]_vars

\* the same program driven by one call at a time: a call starts only when
\* every earlier call has returned
Quiet == \A u \in Threads : pc[u] = "idle"

NextSeq ==
  \E t \in Threads :
    \/ \E o \in Objects : Quiet /\ CallInit(t, o)
    \/ \E o \in Objects : Quiet /\ CallEncode(t, o)
    \/ \E o \in Objects : Quiet /\ CallDestroy(t, o)
    \/ DestroyPanic(t)
    \/ EncLock(t)
    \/ EncBody(t)

SpecSeq == Init /\ [][NextSeq]_vars

\* the closure of encode taken alone (lines 87-113), applied once to every
\* argument tuple and engine; `last` also records the arguments, what the
\* engine was invoked with and the tokens it returned
EncodeOnce ==
  /\ last = NoCall
  /\ \E enc \in REGISTRY, y \in EncodeInputs :
       LET m == MarshalResult(y[1], y[2], y[3], y[4])
           c == EngineCall(m, y[5])
           r == EncodeResult(enc, y[1], y[2], y[3], y[4], y[5], <<y[6], y[7]>>)
           u == unwrap_or_throw(Raised(r) # <<>>, r, NullArray) IN
       /\ last' = [op |-> "encode", result |-> r,
                   exc |-> Raised(r) \o u.throws, ret |-> u.value,
                   args |-> [textJni |-> y[1], text |-> y[2], arrNull |-> y[3],
                             arr |-> y[4], max_token_length |-> y[5]],
                   enc |-> enc, engine |-> c, tokens |-> EngineTokens(enc, c)]
       /\ UNCHANGED <<shared, pc, obj, ptr, aborted, calls, usedT, usedO>>

\* lines 104-113 taken alone, applied once to every token vector an engine
\* whose ids are usize values can return
UsizeValues == 0..(Pow2(WordBits) - 1)
TokenVectors == SeqsUpTo(UsizeValues, MaxText)

OutputOnce ==
  /\ last = NoCall
  /\ \E toks \in TokenVectors, newJni, copyJni \in {"ok", "jexc"} :
       LET r == OutputResult(toks, newJni, copyJni)
           u == unwrap_or_throw(Raised(r) # <<>>, r, NullArray) IN
       /\ newJni # "ok" => copyJni = "ok"
       /\ last' = [op |-> "output", result |-> r,
                   exc |-> Raised(r) \o u.throws, ret |-> u.value,
                   tokens |-> toks]
       /\ UNCHANGED <<shared, pc, obj, ptr, aborted, calls, usedT, usedO>>

NextClosure == EncodeOnce \/ OutputOnce

SpecClosure == Init /\ [][NextClosure]_vars

\* EncBody with the call written down: for a call that returns an array,
\* `last` also records the arguments, the box the guard belongs to and the
\* tokens the engine returned
NoArgs == [textJni |-> "ok", text |-> 0, arrNull |-> FALSE, arr |-> <<>>,
           max_token_length |-> 0]

\* lines 87-110 on engine `enc` with the arguments and JNI answers y: the
\* closure's result, and for an Ok result the arguments and the tokens
EncodeCall(enc, y) ==
  LET r == EncodeResult(enc, y[1], y[2], y[3], y[4], y[5], <<y[6], y[7]>>)
      c == EngineCall(MarshalResult(y[1], y[2], y[3], y[4]), y[5]) IN
  [result |-> r,
   args |-> IF ~r.ok THEN NoArgs
            ELSE [textJni |-> y[1], text |-> y[2], arrNull |-> y[3],
                  arr |-> y[4], max_token_length |-> y[5]],
   tokens |-> IF r.ok THEN EngineTokens(enc, c) ELSE <<>>]
EncodeCalls ==
  [enc \in REGISTRY |-> {EncodeCall(enc, y) : y \in EncodeInputs}]

EncBodyArgs(t) ==
  LET e == ptr[t] IN
  /\ ~aborted
  /\ pc[t] = "e_held"
  /\ \E enc \in (IF heap[e].st = "freed" THEN REGISTRY ELSE {heap[e].enc}) :
       \E x \in EncodeCalls[enc] :
         LET u == unwrap_or_throw(Raised(x.result) # <<>>, x.result,
                                  NullArray) IN
         /\ holders' = [holders EXCEPT ![e] = DropGuard(@, t, x.result)]
         /\ last' = [op |-> "encode", result |-> x.result,
                     exc |-> Raised(x.result) \o u.throws, ret |-> u.value,
                     args |-> x.args,
                     handle |-> IF x.result.ok THEN e ELSE 0,
                     tokens |-> x.tokens]
         /\ pc' = [pc EXCEPT ![t] = "idle"]
         /\ obj' = [obj EXCEPT ![t] = 0]
         /\ ptr' = [ptr EXCEPT ![t] = 0]
  /\ UNCHANGED <<field, heap, monitor, released, destroyed, aborted, calls,
                 usedT, usedO>>

\* the program driven by one call at a time, every encode call written down
NextSeqArgs ==
  \E t \in Threads :
    \/ \E o \in Objects : Quiet /\ CallInit(t, o)
    \/ \E o \in Objects : Quiet /\ CallEncode(t, o)
    \/ \E o \in Objects : Quiet /\ CallDestroy(t, o)
    \/ DestroyPanic(t)
    \/ EncLock(t)
    \/ EncBodyArgs(t)

SpecSeqArgs == Init /\ [][NextSeqArgs]_vars

\* unwrap_or_throw taken alone (lines 20-37), entered from init (line 65)
\* or encode (line 113) on thread t for object o with every result the
\* closure can have returned and with or without an exception pending on
\* the JNIEnv; a closure that failed on a Java exception has it pending
NoReturn == [kind |-> "none"]
InitClosureResults ==
  {r \in InitOutcomes : ~r.ok} \cup {Ok(Unit), Err(ErrFieldAlreadySet)}
BridgeEntries ==
  {[op |-> "init", result |-> r, enc |-> enc] :
     r \in InitClosureResults, enc \in REGISTRY}
  \cup {[op |-> "encode", result |-> r, enc |-> enc] :
          r \in EncodeOutcomes["gpt2"], enc \in {"gpt2"}}
  \cup {[op |-> "encode", result |-> r, enc |-> enc] :
          r \in EncodeOutcomes["cl100k_base"], enc \in {"cl100k_base"}}
PendingAtEntry(r) ==
  IF Raised(r) # <<>> THEN {Raised(r)} ELSE {<<>>, <<JavaRaised>>}

InitBridge ==
  \E t \in Threads, o \in Objects, c \in BridgeEntries :
    \E pend \in PendingAtEntry(c.result) :
      LET installed == c.op = "encode" \/ c.result.ok
                       \/ c.result = Err(ErrFieldAlreadySet) IN
      /\ field = [x \in Objects |-> IF x = o /\ installed THEN 1 ELSE 0]
      /\ heap = [e \in Engines |->
                   IF e = 1 /\ installed
                   THEN [st |-> "boxed", enc |-> c.enc, obj |-> o]
                   ELSE NoEngine]
      /\ holders = [e \in Engines |-> {}]
      /\ monitor = [x \in Objects |-> 0]
      /\ released = [e \in Engines |-> 0]
      /\ destroyed = [x \in Objects |-> FALSE]
      /\ pc = [u \in Threads |-> IF u = t THEN "bridge" ELSE "idle"]
      /\ obj = [u \in Threads |-> IF u = t THEN o ELSE 0]
      /\ ptr = [u \in Threads |-> 0]
      /\ last = [op |-> c.op, result |-> c.result, exc |-> pend,
                 ret |-> NoReturn]
      /\ aborted = FALSE
      /\ calls = 1
      /\ usedT = t
      /\ usedO = o

BridgeReturn(t) ==
  LET u == unwrap_or_throw(last.exc # <<>>, last.result, Default(last.op)) IN
  /\ pc[t] = "bridge"
  /\ last' = [last EXCEPT !.exc = @ \o u.throws, !.ret = u.value]
  /\ pc' = [pc EXCEPT ![t] = "idle"]
  /\ UNCHANGED <<shared, obj, ptr, aborted, calls, usedT, usedO>>

NextBridge == \E t \in Threads : BridgeReturn(t)

SpecBridge == InitBridge /\ [][NextBridge]_vars

\* the program under concurrent init and encode calls, with host threads
\* scheduled fairly: a thread that can take the mutex, or that holds the
\* guard, eventually runs
NextLive ==
  \E t \in Threads :
    \/ \E o \in Objects : CallInit(t, o)
    \/ \E o \in Objects : CallEncode(t, o)
    \/ EncLock(t)
    \/ EncBody(t)

SpecLive ==
  /\ Init
  /\ [][NextLive]_vars
  /\ \A t \in Threads : WF_vars(EncLock(t)) /\ WF_vars(EncBody(t))

\* ------------------------------------------------------------- properties
LiveHandles(o) == {e \in Engines : heap[e].st = "boxed" /\ heap[e].obj = o}

\* C1: no two encode calls are at the same time between the acquisition of
\* the guard of one engine and the end of the closure that built the result
C1_EncodeMutualExclusion ==
  \A t1, t2 \in Threads :
    (t1 # t2 /\ pc[t1] = "e_held" /\ pc[t2] = "e_held") => ptr[t1] # ptr[t2]

\* a step in which an init call runs: a call starts, no thread is left
\* inside a call by it, and the call that returned last is an init
InitStep == calls' = calls + 1 /\ pc' = pc /\ last'.op = "init"

\* C2: every object has at most one live handle, and an init call on an
\* object whose field holds a handle returns with an exception pending and
\* leaves the field, the engines and the guards as they were
C2_InitStep ==
  InitStep =>
    \A o \in Objects :
      (field[o] # 0 /\ \E t \in Threads : CallInit(t, o))
        => /\ field' = field
           /\ heap'[field[o]] = heap[field[o]]
           /\ holders' = holders
           /\ last'.exc # <<>>
C2_OneHandlePerObject ==
  /\ [](\A o \in Objects : Cardinality(LiveHandles(o)) <= 1)
  /\ [][C2_InitStep]_vars

C2_Witness ==
  /\ last.op = "init"
  /\ last.result = Err(ErrFieldAlreadySet)
  /\ last.exc = <<ErrFieldAlreadySet>>
  /\ \E o \in Objects : Cardinality(LiveHandles(o)) = 1

\* C3: an init call whose closure fails registers nothing: the field of
\* every object is what it was before the call, no engine has become a
\* handle, and the call returns with an exception pending
C3_FailStep ==
  (InitStep /\ ~last'.result.ok)
    => /\ field' = field
       /\ \A o \in Objects : LiveHandles(o)' = LiveHandles(o)
       /\ last'.exc # <<>>
C3_FailedInitRegistersNothing == [][C3_FailStep]_vars

C3_Witness ==
  /\ last.op = "init"
  /\ last.result = Err(ErrFindModel)
  /\ \A o \in Objects : field[o] = 0 /\ ~destroyed[o]

\* C4: an encode call that finds no handle on its object (never initialized,
\* or destroyed) returns the null array with an exception pending and a
\* failed result, without taking the monitor or a guard; a call that goes on
\* to the engine works on a handle it read from the field
C4_NoHandleStep ==
  calls' # calls =>
  \A t \in Threads, o \in Objects :
    (field[o] = 0 /\ CallEncode(t, o))
      => /\ pc'[t] = "idle"
         /\ last'.op = "encode"
         /\ ~last'.result.ok
         /\ last'.exc # <<>>
         /\ last'.ret = NullArray
         /\ holders' = holders
         /\ monitor' = monitor
C5_SingleException ==
  /\ Len(last.exc) <= 1
  /\ last.result.err = ErrJavaException
       => last.exc = <<JavaRaised>> /\ last.ret = Default(last.op)

C5_Witness ==
  /\ last.op = "encode"
  /\ last.result = Err(ErrJavaException)
  /\ last.exc = <<JavaRaised>>
  /\ last.ret = NullArray

\* C6: no entry point terminates abnormally: no call panics and the process
\* never aborts
C6_NoAbnormalTermination ==
  /\ ~aborted
  /\ \A t \in Threads : pc[t] # "d_panic"

\* C7: over calls made one at a time, an engine that was installed is
\* released at most once, and a destroy call on an object with no handle
\* fails and leaves every field, engine and release count as it was
C7_NoHandleStep ==
  calls' # calls =>
  \A t \in Threads, o \in Objects :
    (field[o] = 0 /\ CallDestroy(t, o))
      => /\ pc'[t] = "d_panic"
         /\ field' = field
         /\ heap' = heap
         /\ released' = released
         /\ destroyed' = destroyed
C7_ReleasedAtMostOnce ==
  /\ [](\A e \in Engines : released[e] <= 1)
  /\ [][C7_NoHandleStep]_vars

\* C8: while an encode call holds the guard of an engine, that engine is
\* allocated and is still the handle of its object
C8_NoReleaseUnderGuard ==
  \A t \in Threads :
    pc[t] = "e_held"
      => /\ heap[ptr[t]].st = "boxed"
         /\ field[heap[ptr[t]].obj] = ptr[t]

\* C9: an encode call that fails with the guard held leaves the field and
\* the engines as they were and holds neither the guard nor the monitor
\* when it returns; a thread outside the guarded part of encode holds no
\* guard
C9_FailStep ==
  \A t \in Threads :
    (pc[t] = "e_held" /\ pc'[t] = "idle" /\ ~last'.result.ok)
      => /\ field' = field
         /\ heap' = heap
         /\ t \notin holders'[ptr[t]]
         /\ \A o \in Objects : monitor'[o] # t
C9_FailedEncodeKeepsHandle ==
  /\ [][C9_FailStep]_vars
  /\ [](\A t \in Threads, e \in Engines :
          t \in holders[e] => pc[t] = "e_held" /\ ptr[t] = e)

C9_Witness ==
  \E o \in Objects :
    /\ last.op = "encode"
    /\ last.result = Err(ErrJavaException)
    /\ field[o] # 0
    /\ heap[field[o]].st = "boxed"
    /\ holders[field[o]] = {}
    /\ \A u \in Threads : pc[u] = "idle"
    /\ usedO = 1

\* C10: an init or encode call that fails returns the default with exactly
\* one exception pending, and when the failure raised nothing itself that
\* exception carries the message of the error
C10_FailureRaisesOne ==
  (last.op \in {"init", "encode"} /\ ~last.result.ok)
    => /\ Len(last.exc) = 1
       /\ last.ret = Default(last.op)
       /\ (last.result.err # ErrJavaException
             => last.exc = <<last.result.err>>)

C10_Witness ==
  /\ last.op = "init"
  /\ last.result = Err(ErrVocabulary)
  /\ last.exc = <<ErrVocabulary>>
  /\ last.ret = Unit

\* C11: Destroyed is terminal: an object on which a destroy call has
\* completed never holds a handle again
C11_DestroyedIsTerminal ==
  \A o \in Objects : destroyed[o] => field[o] = 0

C13_LengthWithinBound ==
  (last.op = "encode" /\ last.result.ok /\ last.args.max_token_length >= 0)
    => /\ last.ret.kind = "array"
       /\ Len(last.ret.elems) <= last.args.max_token_length

C13_Witness ==
  /\ last.op = "encode"
  /\ last.result.ok
  /\ last.args.max_token_length = 0
  /\ last.args.text = MaxText
  /\ last.ret = LongArray(<<>>)

\* C14: a successful call returns an array as long as the engine's token
\* vector whose i-th element is the i-th token id, none negative
C14_ArrayEqualsTokens ==
  (last.op \in {"encode", "output"} /\ last.result.ok)
    => /\ last.ret.kind = "array"
       /\ Len(last.ret.elems) = Len(last.tokens)
       /\ \A i \in 1..Len(last.tokens) :
            last.ret.elems[i] = last.tokens[i] /\ last.ret.elems[i] >= 0

\* C15: when an element of allowed_special_tokens cannot be fetched the
\* engine is not invoked and the call fails with the null array; the engine
\* is only ever invoked with the set of all the array's elements
C15_NoPartialSpecialSet ==
  last.op = "encode"
    => /\ (/\ last.args.textJni = "ok"
           /\ ~last.args.arrNull
           /\ \E i \in 1..Len(last.args.arr) :
                last.args.arr[i] \in {"null", "jexc"})
         => /\ ~last.engine.called
            /\ ~last.result.ok
            /\ last.exc # <<>>
            /\ last.ret = NullArray
       /\ last.engine.called
         => last.engine.v2 =
              {last.args.arr[i] : i \in 1..Len(last.args.arr)}

C15_Witness ==
  /\ last.op = "encode"
  /\ last.args.textJni = "ok"
  /\ last.args.arr # <<>>
  /\ last.args.arr[Len(last.args.arr)] = "jexc"
  /\ ~last.engine.called
  /\ last.exc = <<JavaRaised>>
  /\ last.ret = NullArray

\* C16: an encode call waiting for the mutex is held up only by a call that
\* holds the guard of the same object, and the step that ends an encode
\* call touches no guard but its own and returns one of the results that
\* its own object's engine gives
C16_EncodeStep ==
  \A t \in Threads :
    (pc[t] = "e_held" /\ pc'[t] = "idle")
      => /\ last'.result \in EncodeOutcomes[heap[field[obj[t]]].enc]
         /\ \A e \in Engines \ {field[obj[t]]} : holders'[e] = holders[e]
         /\ field' = field
         /\ heap' = heap
C17_EncodeReturns ==
  \A t \in Threads : (pc[t] \in {"e_lock", "e_held"}) ~> (pc[t] = "idle")

C17_Witness ==
  \E t, u \in Threads :
    /\ pc[t] = "e_lock"
    /\ pc[u] = "e_held"
    /\ ptr[u] = ptr[t]

C19_FrameStep ==
  (field' # field \/ heap' # heap \/ destroyed' # destroyed)
    => \A b \in Objects :
         (\/ field'[b] # field[b]
          \/ destroyed'[b] # destroyed[b]
          \/ LiveHandles(b)' # LiveHandles(b)
          \/ field[b] # 0 /\ heap'[field[b]] # heap[field[b]])
           => \E t \in Threads : CallInit(t, b) \/ CallDestroy(t, b)
C20_ValueOnlyIfNothingPending ==
  \A t \in Threads :
    (pc[t] = "idle" /\ obj[t] # 0 /\ last.result.ok)
      => /\ last.exc = <<>> => last.ret = last.result.val
         /\ last.exc # <<>>
              => last.ret = Default(last.op) /\ last.exc = <<JavaRaised>>
         /\ last.op = "encode"
              => (last.ret = last.result.val <=> last.exc = <<>>)
         /\ last.op = "init"
              => field[obj[t]] # 0 /\ heap[field[obj[t]]].st = "boxed"

C20_Witness ==
  \E t \in Threads :
    /\ pc[t] = "idle"
    /\ obj[t] # 0
    /\ last.op = "init"
    /\ last.result.ok
    /\ last.exc = <<JavaRaised>>
    /\ last.ret = Unit
    /\ field[obj[t]] # 0

====
